---- MODULE Spec2Model ----
(***************************************************************************)
(* Model of the ultimate tic-tac-toe move counter (src/src/main.rs).       *)
(*                                                                         *)
(* A Mask81 (the low 81 bits of a u128) is modelled as the set of its set  *)
(* bit indices, a subset of 0..80; a 9-bit u16 mask as a subset of 0..8.   *)
(* Bitwise and/or/not become intersection, union and complement in ALL.    *)
(*                                                                         *)
(* The state machine walks the move tree with the program's own move       *)
(* generator: the variable state is the Position at the current node, and  *)
(* one step replaces it by one successor emitted by for_each_next_states   *)
(* (Expand), or by that successor's canonical form, as the symmetry branch *)
(* of recurse does before descending (ExpandSym).  CountMoves is a call of *)
(* count_moves.                                                            *)
(*                                                                         *)
(* The move tree is far too large to enumerate, so the walk is exhaustive  *)
(* only for the first `free` plies and follows one of NumLines fixed lines *)
(* of play afterwards (LineMove); every position visited is reachable by   *)
(* legal play from State::initial().                                       *)
(***************************************************************************)
EXTENDS Integers, FiniteSets, Sequences, TLC

VARIABLES state, line, free, pc, max_depth, result, tasks, partial, live

vars == <<state, line, free, pc, max_depth, result, tasks, partial, live>>

\* ---- bounds of the exploration ----
FreePlies == 1      \* plies explored exhaustively from the root
NumLines == 2       \* fixed lines of play followed after the free plies
MaxDepth == 2       \* largest argument given to count_moves
MaxRemaining == 2   \* largest remaining depth the counting strategies are compared at
NumWorkers == 2     \* threads of the pool
MaxTasks == 5       \* largest number of keys of next_states a fan-out is followed for

\* ---- program constants ----
SYM_DEPTH == 7      \* remaining depth from which recurse deduplicates by symmetry
DRIVER_DEPTH == 9   \* largest depth main() asks for

ALL == 0 .. 80

FIELD_ALL == 0 .. 8

Syms == 0 .. 7

\* ---- symmetries ----
symmetry_perm(sym, i) ==
    LET y0 == i \div 3
        x0 == i % 3
        y1 == IF (sym \div 1) % 2 # 0 THEN 2 - y0 ELSE y0
        x1 == IF (sym \div 2) % 2 # 0 THEN 2 - x0 ELSE x0
        y2 == IF (sym \div 4) % 2 # 0 THEN x1 ELSE y1
        x2 == IF (sym \div 4) % 2 # 0 THEN y1 ELSE x1
    IN  y2 * 3 + x2

\* variant: the sub-boards are permuted, the cells inside a sub-board are not
symmetry_perm2_fields_only(sym, i) ==
    symmetry_perm(sym, i \div 9) * 9 + (i % 9)

symmetry_perm2(sym, i) ==
    symmetry_perm(sym, i \div 9) * 9 + symmetry_perm(sym, i % 9)

\* symmetry_perm2 tabulated, sym |-> i |-> symmetry_perm2(sym, i)
Perm2 == [sym \in Syms |-> [i \in 0 .. 80 |-> symmetry_perm2(sym, i)]]

\* bit i of the result is bit symmetry_perm(sym, i) of field
symmetry_perm_field(sym, field) ==
    {i \in 0 .. 8 : symmetry_perm(sym, i) \in field}

\* variant: bit i of the mask is moved to bit symmetry_perm2(sym, i), the
\* inverse of the permutation the descriptor comparison uses
symmetry_perm_mask_forward(sym, mask) ==
    {Perm2[sym][i] : i \in mask}

\* bit i of the result is bit symmetry_perm2(sym, i) of mask
symmetry_perm_mask(sym, mask) ==
    {i \in 0 .. 80 : Perm2[sym][i] \in mask}

\* ---- Position ----
\* variant: the opening restricted to the centre sub-board
initial_centre_only ==
    [player_placed |-> {},
     opponent_placed |-> {},
     next_valid |-> 36 .. 44,
     available_fields |-> ALL,
     meta_player_placed |-> {},
     meta_opponent_placed |-> {}]

initial ==
    [player_placed |-> {},
     opponent_placed |-> {},
     next_valid |-> ALL,
     available_fields |-> ALL,
     meta_player_placed |-> {},
     meta_opponent_placed |-> {}]

\* ---- CONSTANTS: win table and field masks ----
WIN ==
    {{0, 4, 8}, {2, 4, 6}, {6, 7, 8}, {3, 4, 5}, {0, 1, 2},
     {0, 3, 6}, {1, 4, 7}, {2, 5, 8}}

info(mask) == IF \E x \in WIN : x \subseteq mask THEN 1 ELSE 0

fields(i) == (i * 9) .. (i * 9 + 8)

\* ---- State::minimize_by_symmetry ----
\* the 3-bit tag of every cell
board_of(s) ==
    [i \in 0 .. 80 |->
        (IF i \in s.player_placed THEN 4 ELSE 0)
      + (IF i \in s.opponent_placed THEN 2 ELSE 0)
      + (IF i \in s.next_valid THEN 1 ELSE 0)]

permuted_board(board, sym) == [i \in 0 .. 80 |-> board[Perm2[sym][i]]]

\* slice comparison &a[..] < &b[..] of two arrays of length 81: a is smaller
\* at the first index where they differ
LexLess(a, b) ==
    \E k \in 0 .. 80 :
        /\ a[k] < b[k]
        /\ \A j \in 0 .. (k - 1) : a[j] = b[j]

\* the loop over sym in 0..8; returns min_sym
RECURSIVE min_sym_loop(_, _, _, _)
min_sym_loop(board, sym, min_board, min_sym) ==
    IF sym > 7 THEN min_sym
    ELSE LET permuted == permuted_board(board, sym)
         IN  IF LexLess(permuted, min_board)
             THEN min_sym_loop(board, sym + 1, permuted, sym)
             ELSE min_sym_loop(board, sym + 1, min_board, min_sym)

min_sym_of(s) == min_sym_loop(board_of(s), 0, [i \in 0 .. 80 |-> 255], 0)

\* variant: the two meta masks are copied without being permuted
minimize_by_symmetry_meta_kept(s) ==
    LET min_sym == min_sym_of(s)
    IN  [player_placed |-> symmetry_perm_mask(min_sym, s.player_placed),
         opponent_placed |-> symmetry_perm_mask(min_sym, s.opponent_placed),
         next_valid |-> symmetry_perm_mask(min_sym, s.next_valid),
         available_fields |-> symmetry_perm_mask(min_sym, s.available_fields),
         meta_player_placed |-> s.meta_player_placed,
         meta_opponent_placed |-> s.meta_opponent_placed]

minimize_by_symmetry(s) ==
    LET min_sym == min_sym_of(s)
    IN  [player_placed |-> symmetry_perm_mask(min_sym, s.player_placed),
         opponent_placed |-> symmetry_perm_mask(min_sym, s.opponent_placed),
         next_valid |-> symmetry_perm_mask(min_sym, s.next_valid),
         available_fields |-> symmetry_perm_mask(min_sym, s.available_fields),
         meta_player_placed |-> symmetry_perm_field(min_sym, s.meta_player_placed),
         meta_opponent_placed |-> symmetry_perm_field(min_sym, s.meta_opponent_placed)]

\* ---- MoveCounter::for_each_next_states, one iteration for the bit pos ----
field_of(pos) == pos \div 9

pos_in_field(pos) == pos % 9

next_placed(s, pos) == s.player_placed \cup {pos}

\* the mover's 9 bits of the sub-board played in
extracted(s, pos) ==
    {c \in 0 .. 8 : field_of(pos) * 9 + c \in s.player_placed}

new_field(s, pos) == extracted(s, pos) \cup {pos_in_field(pos)}

new_win(s, pos) == info(new_field(s, pos)) # 0

new_end(s, pos) == new_win(s, pos) \/ new_field(s, pos) = FIELD_ALL

\* variant: only the cell played is removed, not the sub-board's slice
next_available_fields_cell_only(s, pos) ==
    IF new_end(s, pos)
    THEN s.available_fields \ {pos}
    ELSE s.available_fields

next_available_fields(s, pos) ==
    IF new_end(s, pos)
    THEN s.available_fields \ fields(field_of(pos))
    ELSE s.available_fields

\* variant: the win is recorded at the bit of the cell, not of the sub-board
meta_next_placed_at_cell(s, pos) ==
    IF new_end(s, pos) /\ new_win(s, pos)
    THEN s.meta_player_placed \cup {pos_in_field(pos)}
    ELSE s.meta_player_placed

meta_next_placed(s, pos) ==
    IF new_end(s, pos) /\ new_win(s, pos)
    THEN s.meta_player_placed \cup {field_of(pos)}
    ELSE s.meta_player_placed

\* variant: the game ends only on a meta line (no `|| next_available_fields == 0`)
game_over_meta_only(s, pos) ==
    /\ new_end(s, pos)
    /\ info(meta_next_placed(s, pos)) # 0

game_over(s, pos) ==
    /\ new_end(s, pos)
    /\ \/ info(meta_next_placed(s, pos)) # 0
       \/ next_available_fields(s, pos) = {}

\* variant: the cell just played stays legal (no `&= !next_placed`)
next_valid_keep_placed(s, pos) ==
    LET next_field_mask == fields(pos_in_field(pos))
        base == IF next_available_fields(s, pos) \cap next_field_mask = {}
                THEN next_available_fields(s, pos)
                ELSE next_field_mask
    IN  base \ s.opponent_placed

\* variant: the cells of the side to move next stay legal
\* (no `&= !state.opponent_placed`)
next_valid_keep_opponent(s, pos) ==
    LET next_field_mask == fields(pos_in_field(pos))
        base == IF next_available_fields(s, pos) \cap next_field_mask = {}
                THEN next_available_fields(s, pos)
                ELSE next_field_mask
    IN  base \ next_placed(s, pos)

\* variant: the next player is sent to the sub-board just played in
next_valid_same_field(s, pos) ==
    LET next_field_mask == fields(field_of(pos))
        base == IF next_available_fields(s, pos) \cap next_field_mask = {}
                THEN next_available_fields(s, pos)
                ELSE next_field_mask
    IN  (base \ next_placed(s, pos)) \ s.opponent_placed

next_valid_of(s, pos) ==
    LET next_field_mask == fields(pos_in_field(pos))
        base == IF next_available_fields(s, pos) \cap next_field_mask = {}
                THEN next_available_fields(s, pos)
                ELSE next_field_mask
    IN  (base \ next_placed(s, pos)) \ s.opponent_placed

\* the State handed to the callback
next_state(s, pos) ==
    [player_placed |-> s.opponent_placed,
     opponent_placed |-> next_placed(s, pos),
     next_valid |-> next_valid_of(s, pos),
     available_fields |-> next_available_fields(s, pos),
     meta_player_placed |-> s.meta_opponent_placed,
     meta_opponent_placed |-> meta_next_placed(s, pos)]

\* the bits of next_valid for which the callback is called
emitted(s) == {pos \in s.next_valid : ~game_over(s, pos)}

\* variant: the callback is called whether or not the game is over
for_each_next_states_all(s) == [pos \in s.next_valid |-> next_state(s, pos)]

\* the whole loop: the successor handed to the callback, per emitting bit
for_each_next_states(s) == [pos \in emitted(s) |-> next_state(s, pos)]

\* ---- MoveCounter::recurse and count_moves ----
\* the sum of g[lo] .. g[hi], by halves
RECURSIVE SumRange(_, _, _)
SumRange(g, lo, hi) ==
    IF lo > hi THEN 0
    ELSE IF lo = hi THEN g[lo]
    ELSE LET mid == (lo + hi) \div 2
         IN  SumRange(g, lo, mid) + SumRange(g, mid + 1, hi)

\* the sum of f over the bits in D, a subset of 0 .. 80
SumOver(f, D) == SumRange([p \in 0 .. 80 |-> IF p \in D THEN f[p] ELSE 0], 0, 80)

\* the successors of s with their canonical forms: <<bit, canonical form>>
canonical_successors(s) ==
    {<<p, minimize_by_symmetry(next_state(s, p))>> : p \in emitted(s)}

\* variant: a canonical form met again does not raise its count
multiplicity_one(pairs, k) == 1

\* the value of the HashMap next_states at the key k: the number of
\* successors whose canonical form is k (`*entry(k).or_default() += 1`)
multiplicity(pairs, k) == Cardinality({pr \in pairs : pr[2] = k})

\* variant: the moves of the node itself are not counted
initial_total_zero(s) == 0

\* the value total starts with: one per legal move of the node
initial_total(s) == Cardinality(s.next_valid)

\* variant: only the layer with exactly threshold plies remaining deduplicates
recurse_branch_one_layer(depth, maxd, threshold) ==
    IF maxd - depth = 1 THEN "count"
    ELSE IF maxd - depth = threshold THEN "dedup"
    ELSE "plain"

\* the branch of recurse taken at a node, threshold being the literal 7
recurse_branch(depth, maxd, threshold) ==
    IF maxd - depth = 1 THEN "count"
    ELSE IF maxd - depth >= threshold THEN "dedup"
    ELSE "plain"

\* recurse with the literal 7 of its second branch as the parameter threshold
RECURSIVE recurse_at(_, _, _, _)
recurse_at(s, depth, maxd, threshold) ==
    LET succ == for_each_next_states(s)
        total == initial_total(s)
    IN  IF recurse_branch(depth, maxd, threshold) = "count"
        THEN total + SumOver([p \in DOMAIN succ |-> Cardinality(succ[p].next_valid)],
                             DOMAIN succ)
        ELSE IF recurse_branch(depth, maxd, threshold) = "dedup"
        THEN \* every key of next_states is summed once, at the first bit
             \* that produced it
             LET pairs == canonical_successors(s)
                 first == {pr \in pairs : \A qr \in pairs : qr[2] = pr[2] => pr[1] <= qr[1]}
                 key == [p \in {pr[1] : pr \in first} |->
                           (CHOOSE pr \in first : pr[1] = p)[2]]
             IN  total + SumOver([p \in DOMAIN key |->
                                    multiplicity(pairs, key[p])
                                      * recurse_at(key[p], depth + 1, maxd, threshold)],
                                 DOMAIN key)
        ELSE total + SumOver([p \in DOMAIN succ |->
                                recurse_at(succ[p], depth + 1, maxd, threshold)],
                             DOMAIN succ)

recurse(s, depth, maxd) == recurse_at(s, depth, maxd, SYM_DEPTH)

\* variant: the depth asked for is ignored, one ply is counted
count_moves_one_ply(maxd) == IF maxd = 0 THEN 0 ELSE recurse(initial, 0, 1)

\* variant: no special case for 0, the moves of the root are counted
count_moves_no_zero_case(maxd) ==
    IF maxd = 0 THEN Cardinality(initial.next_valid) ELSE recurse(initial, 0, maxd)

count_moves(maxd) == IF maxd = 0 THEN 0 ELSE recurse(initial, 0, maxd)

\* ---- the walk ----
ply(s) == Cardinality(s.player_placed \cup s.opponent_placed)

\* the k-th set bit of a mask, in ascending order, k from 0
KthBit(mask, k) == CHOOSE p \in mask : Cardinality({q \in mask : q < p}) = k

\* the bit of next_valid the fixed line of play l picks
LineMove(s, l) ==
    KthBit(s.next_valid, (l * (ply(s) + 1)) % Cardinality(s.next_valid))

\* the bits of next_valid the walk tries in s
Tried(s, l, f) ==
    IF s.next_valid = {} THEN {}
    ELSE IF ply(s) < f THEN s.next_valid
    ELSE {LineMove(s, l)}

\* the threads of the pool that runs the parallel iterator
Workers == 1 .. NumWorkers

InitWith(f) ==
    /\ state = initial
    /\ line \in 0 .. (NumLines - 1)
    /\ free = f
    /\ pc = "start"
    /\ max_depth = 0
    /\ result = 0
    /\ tasks = {}
    /\ partial = [w \in Workers |-> 0]
    /\ live = Workers

Init == InitWith(FreePlies)

InitLine == InitWith(0)

\* one iteration of for_each_next_states whose callback descends (plain branches)
Expand ==
    \E pos \in Tried(state, line, free) :
        /\ ~game_over(state, pos)
        /\ state' = next_state(state, pos)
        /\ UNCHANGED <<line, free, pc, max_depth, result, tasks, partial, live>>

\* the same in the symmetry branch: the successor is canonicalized first;
\* main asks for at most DRIVER_DEPTH plies, so the branch is taken at
\* recursion depths 0 .. DRIVER_DEPTH - SYM_DEPTH only
ExpandSym ==
    /\ ply(state) <= DRIVER_DEPTH - SYM_DEPTH
    /\ \E pos \in Tried(state, line, free) :
        /\ ~game_over(state, pos)
        /\ state' = minimize_by_symmetry(next_state(state, pos))
        /\ UNCHANGED <<line, free, pc, max_depth, result, tasks, partial, live>>

\* a call count_moves(d) from the driver
CountMoves ==
    /\ pc = "start"
    /\ state = initial
    /\ \E d \in 0 .. MaxDepth :
        /\ max_depth' = d
        /\ result' = count_moves(d)
    /\ pc' = "returned"
    /\ UNCHANGED <<state, line, free, tasks, partial, live>>

Next == Expand \/ ExpandSym

NextCount == Expand \/ ExpandSym \/ CountMoves

Spec == Init /\ [][Next]_vars

SpecSym == InitLine /\ [][Next]_vars

SpecCount == InitLine /\ [][NextCount]_vars

\* ---- the parallel fan-out of the symmetry branch ----
\* the walk, while no fan-out is in progress
Walk == pc = "start" /\ (Expand \/ ExpandSym)

\* the HashMap next_states is built and handed to the parallel iterator:
\* one task <<next_state, mul, value>> per entry, where value is what the call
\* recurse(next_state, depth + 1, max_depth) of the closure returns for it
\* (recurse reads only its arguments and the tables of &self, so the value
\* does not depend on when, or by which worker, the call is made)
Fork ==
    /\ pc = "start"
    /\ ply(state) <= DRIVER_DEPTH - SYM_DEPTH
    /\ \E r \in 2 .. MaxRemaining :
        LET pairs == canonical_successors(state)
            keys == {pr[2] : pr \in pairs}
        IN  /\ Cardinality(keys) <= MaxTasks
            /\ tasks' = {<<k, multiplicity(pairs, k), recurse_at(k, 1, r, r)>> : k \in keys}
            /\ max_depth' = r
    /\ partial' = [w \in Workers |-> 0]
    /\ live' = Workers
    /\ pc' = "forked"
    /\ UNCHANGED <<state, line, free, result>>

\* variant: a worker keeps the last value instead of adding it
accumulate_overwrite(acc, v) == v

\* the addition of sum::<u64>()
accumulate(acc, v) == acc + v

\* a worker takes any entry, maps it to mul * recurse(next_state, depth + 1,
\* max_depth) and adds that to its own partial sum
Work(w) ==
    /\ pc = "forked"
    /\ w \in live
    /\ \E t \in tasks :
        /\ partial' = [partial EXCEPT
                         ![w] = accumulate(@, t[2] * t[3])]
        /\ tasks' = tasks \ {t}
    /\ UNCHANGED <<state, line, free, pc, max_depth, result, live>>

\* the partial sum of b is added to the partial sum of a
Reduce(a, b) ==
    /\ pc = "forked"
    /\ a \in live /\ b \in live /\ a # b
    /\ partial' = [partial EXCEPT ![a] = accumulate(@, partial[b])]
    /\ live' = live \ {b}
    /\ UNCHANGED <<state, line, free, pc, max_depth, result, tasks>>

\* the sum is complete and is added to total, which recurse returns; the
\* accumulators of the workers are gone
Join ==
    /\ pc = "forked"
    /\ tasks = {}
    /\ \E a \in live :
        /\ live = {a}
        /\ result' = initial_total(state) + partial[a]
    /\ partial' = [w \in Workers |-> 0]
    /\ pc' = "joined"
    /\ UNCHANGED <<state, line, free, max_depth, tasks, live>>

NextPar ==
    \/ Walk
    \/ Fork
    \/ \E w \in Workers : Work(w)
    \/ \E a \in Workers : \E b \in Workers : Reduce(a, b)
    \/ Join

SpecPar == InitLine /\ [][NextPar]_vars

\* the walk along the single line of play 1
InitOneLine == InitWith(0) /\ line = 1

SpecOneLine == InitOneLine /\ [][Next]_vars

\* ---- helpers of the properties ----
placed(s) == s.player_placed \cup s.opponent_placed

meta(s) == s.meta_player_placed \cup s.meta_opponent_placed

\* the sub-board's slice of available_fields is clear
Closed(s, f) == s.available_fields \cap fields(f) = {}

\* all 9 cells of the sub-board are occupied by the two sides together
Full(s, f) == fields(f) \subseteq placed(s)

\* ---- count_moves(1) ----
\* C1, as stated: count_moves(1) returns 9 from the initial Position.
C1_NineOpeningMoves == (pc = "returned" /\ max_depth = 1) => result = 9

\* C1, amended: count_moves(1) returns 801: the 81 opening moves plus the
\* 720 two-move sequences.
C1_CountOne == (pc = "returned" /\ max_depth = 1) => result = 801

C1_Witness == pc = "returned" /\ max_depth = 1 /\ state = initial

\* ---- invariants of the Position ----
\* C2: a sub-board's slice of available_fields is clear exactly when the
\* sub-board is recorded as won by either side or all 9 of its cells are
\* occupied.
C2_ClosedIffWonOrFull ==
    \A f \in 0 .. 8 : Closed(state, f) <=> (f \in meta(state) \/ Full(state, f))

\* C3: the two occupancy masks are disjoint, in the Position and in every
\* successor for_each_next_states emits from it.
C3_Disjoint ==
    /\ state.player_placed \cap state.opponent_placed = {}
    /\ \A pos \in emitted(state) :
           next_state(state, pos).player_placed
             \cap next_state(state, pos).opponent_placed = {}

C3_Witness ==
    /\ state.player_placed # {}
    /\ state.opponent_placed # {}
    /\ emitted(state) # {}

\* C4: next_valid is a subset of available_fields and holds no occupied cell.
C4_NextValid ==
    /\ state.next_valid \subseteq state.available_fields
    /\ state.next_valid \cap placed(state) = {}

\* the side to move may play in any open sub-board, some cells of which are
\* occupied
C4_Witness ==
    /\ ply(state) > 0
    /\ \E f, g \in 0 .. 8 :
          /\ f # g
          /\ state.next_valid \cap fields(f) # {}
          /\ state.next_valid \cap fields(g) # {}
          /\ placed(state) \cap fields(f) # {}

\* C5: every sub-board's slice of available_fields is all ones or all zeros.
C5_SliceAllOrNothing ==
    \A f \in 0 .. 8 :
        \/ state.available_fields \cap fields(f) = {}
        \/ fields(f) \subseteq state.available_fields

C5_Witness ==
    \E f, g \in 0 .. 8 : Closed(state, f) /\ ~Closed(state, g)

\* ---- symmetry ----
\* apply(sym, s): all six fields of s permuted with sym
Apply(sym, s) ==
    [player_placed |-> symmetry_perm_mask(sym, s.player_placed),
     opponent_placed |-> symmetry_perm_mask(sym, s.opponent_placed),
     next_valid |-> symmetry_perm_mask(sym, s.next_valid),
     available_fields |-> symmetry_perm_mask(sym, s.available_fields),
     meta_player_placed |-> symmetry_perm_field(sym, s.meta_player_placed),
     meta_opponent_placed |-> symmetry_perm_field(sym, s.meta_opponent_placed)]

\* C7: minimize_by_symmetry gives the same Position, in all six fields, for
\* a Position and for each of its 8 symmetric images.
C7_SymmetryInvariant ==
    \A sym \in Syms :
        minimize_by_symmetry(Apply(sym, state)) = minimize_by_symmetry(state)

\* a Position with a closed sub-board and a recorded win that some symmetry
\* moves
C7_Witness ==
    /\ meta(state) # {}
    /\ state.available_fields # ALL
    /\ \E sym \in Syms :
          /\ Apply(sym, state).meta_opponent_placed # state.meta_opponent_placed
          /\ Apply(sym, state).available_fields # state.available_fields

\* C8: minimize_by_symmetry is idempotent.
C8_Idempotent ==
    minimize_by_symmetry(minimize_by_symmetry(state)) = minimize_by_symmetry(state)

\* a Position that is not its own canonical form
C8_Witness ==
    /\ minimize_by_symmetry(state) # state
    /\ ply(state) > 2

\* ---- closure of a sub-board ----
WonOrFull(s, f) == f \in meta(s) \/ Full(s, f)

\* C9: a move clears a sub-board's slice of available_fields exactly when it
\* is the first move after which the sub-board is won or full, and no move
\* sets a bit of available_fields.
C9_ClosedOnceWhenWonOrFull ==
    \A pos \in emitted(state) :
        LET t == next_state(state, pos)
        IN  /\ t.available_fields \subseteq state.available_fields
            /\ \A f \in 0 .. 8 :
                   (~Closed(state, f) /\ Closed(t, f))
                     <=> (~WonOrFull(state, f) /\ WonOrFull(t, f))

\* ---- the successors emitted ----
\* after the move at pos the mover's meta mask holds a winning line or no
\* sub-board remains in available_fields
Ends(s, pos) ==
    LET t == next_state(s, pos)
    IN  \/ \E x \in WIN : x \subseteq t.meta_opponent_placed
        \/ t.available_fields = {}

\* C10: for_each_next_states emits a successor for exactly the bits of
\* next_valid whose move does not end the game, hence at most one per bit.
C10_EmitsNonTerminal ==
    /\ DOMAIN for_each_next_states(state)
         = {pos \in state.next_valid : ~Ends(state, pos)}
    /\ Cardinality(DOMAIN for_each_next_states(state))
         <= Cardinality(state.next_valid)

\* a Position with a move that ends the game and a move that does not
C10_Witness ==
    /\ \E pos \in state.next_valid : Ends(state, pos)
    /\ \E pos \in state.next_valid : ~Ends(state, pos)

\* ---- the counting strategies ----
\* the count of the recursion that never deduplicates, r plies remaining
PlainCount(s, r) == recurse_at(s, 0, r, r + 1)

\* C6: at every remaining depth r the count of the symmetry-deduplicating
\* branch (successors grouped by canonical form, one recursion per group
\* times its multiplicity) equals the count of the plain per-successor
\* recursion; at the recursion depths where the program takes that branch,
\* also when the recursion below deduplicates again, from any threshold on.
C6_DedupEqualsPlain ==
    \A r \in 2 .. MaxRemaining :
        /\ recurse_at(state, 0, r, r) = PlainCount(state, r)
        /\ ply(state) <= DRIVER_DEPTH - SYM_DEPTH =>
              \A threshold \in 2 .. r :
                  recurse_at(state, 0, r, threshold) = PlainCount(state, r)

\* a Position after the first move, two successors of which have the same
\* canonical form
C6_Witness ==
    /\ ply(state) > 0
    /\ \E pr, qr \in canonical_successors(state) : pr[1] # qr[1] /\ pr[2] = qr[2]

\* ---- count_moves by depth ----
\* C11: count_moves is strictly increasing in its argument: the value a
\* call count_moves(d) returned, d >= 1, is smaller than count_moves(d + 1).
C11_StrictlyIncreasing ==
    (pc = "returned" /\ state = initial /\ max_depth >= 1)
        => result < count_moves(max_depth + 1)

C11_Witness == pc = "returned" /\ state = initial /\ max_depth = MaxDepth

\* C12: count_moves(0) returns 0.
C12_CountZero == (pc = "returned" /\ max_depth = 0) => result = 0

C12_Witness == pc = "returned" /\ max_depth = 0 /\ state = initial /\ line = 0

\* ---- one ply remaining ----
\* the pairs <<p, q>> of a bit p of S and a bit q of the next_valid computed
\* for the move at p
TwoMoves(s, S) ==
    UNION {{<<p, q>> : q \in next_state(s, p).next_valid} : p \in S}

\* C13, as stated: with one ply remaining recurse returns the sum of
\* 1 + |next_valid(successor)| over one successor per legal cell.
C13_SumOverEveryCell ==
    recurse(state, 0, 1)
        = Cardinality(state.next_valid)
            + Cardinality(TwoMoves(state, state.next_valid))

\* C13, amended: with one ply remaining recurse returns 1 per legal cell plus
\* |next_valid(successor)| for the cells whose move does not end the game.
C13_SumOverNonTerminal ==
    recurse(state, 0, 1)
        = Cardinality(state.next_valid)
            + Cardinality(TwoMoves(state, {p \in state.next_valid : ~Ends(state, p)}))

\* a Position with a move that ends the game and leaves a non-empty
\* next_valid, and a move that does not end it
C13_Witness ==
    /\ \E p \in state.next_valid :
          Ends(state, p) /\ next_state(state, p).next_valid # {}
    /\ \E p \in state.next_valid : ~Ends(state, p)

C18_NeverStuck == state.next_valid # {}

\* ---- the meta masks ----
\* the cells of the mask inside sub-board f hold one of the 8 winning lines
HasLine(mask, f) == \E x \in WIN : {f * 9 + c : c \in x} \subseteq mask

\* C20: the two meta masks are disjoint and bit f of a side's meta mask is
\* set exactly when that side's cells inside sub-board f hold a winning line.
C20_MetaIsWonBoards ==
    /\ state.meta_player_placed \cap state.meta_opponent_placed = {}
    /\ \A f \in 0 .. 8 :
          /\ f \in state.meta_player_placed <=> HasLine(state.player_placed, f)
          /\ f \in state.meta_opponent_placed <=> HasLine(state.opponent_placed, f)

C20_Witness ==
    /\ state.meta_player_placed # {}
    /\ state.meta_opponent_placed # {}
    /\ state.next_valid # {}

\* ---- the layers that deduplicate ----
\* the recursion depths, on the path from the root to the Position s within
\* a call count_moves(maxd), of the nodes that take the deduplicating branch
SymLayers(s, maxd) ==
    {d \in 0 .. ply(s) : recurse_branch(d, maxd, SYM_DEPTH) = "dedup"}

\* C17, as stated: within a call count_moves(depth), depth in 1 .. 9, at
\* most one node of a root-to-leaf path takes the deduplicating branch.
C17_AtMostOneLayer ==
    \A maxd \in 1 .. DRIVER_DEPTH :
        ply(state) < maxd => Cardinality(SymLayers(state, maxd)) <= 1

\* C17, amended: the nodes of a path that take the deduplicating branch are
\* those at recursion depths 0 .. depth - 7: none for depth <= 6, one for
\* depth 7, up to two for depth 8 and up to three for depth 9.
C17_LayersWithSevenRemaining ==
    \A maxd \in 1 .. DRIVER_DEPTH :
        ply(state) < maxd =>
            SymLayers(state, maxd) = {d \in 0 .. ply(state) : d <= maxd - 7}

\* a canonical Position two plies below the root: in count_moves(9) the
\* root, its parent and the Position itself deduplicate
C17_Witness ==
    /\ ply(state) = 2
    /\ state = minimize_by_symmetry(state)
    /\ Cardinality(SymLayers(state, DRIVER_DEPTH)) = 3

\* ---- count_moves and the legal move sequences ----
\* the Position after the moves of q, a legal sequence none of whose moves
\* but the last ends the game
RECURSIVE PositionAfter(_)
PositionAfter(q) ==
    IF q = << >> THEN initial
    ELSE next_state(PositionAfter(SubSeq(q, 1, Len(q) - 1)), q[Len(q)])

\* the last move of q did not end the game
Extendable(q) ==
    \/ q = << >>
    \/ ~Ends(PositionAfter(SubSeq(q, 1, Len(q) - 1)), q[Len(q)])

\* the legal sequences of exactly k moves from the initial Position
RECURSIVE LegalSeqs(_)
LegalSeqs(k) ==
    IF k = 0 THEN {<< >>}
    ELSE UNION {{Append(q, p) :
                   p \in IF Extendable(q) THEN PositionAfter(q).next_valid ELSE {}} :
                q \in LegalSeqs(k - 1)}

\* the number of legal sequences of 1 .. n moves
RECURSIVE CountSeqsUpTo(_)
CountSeqsUpTo(n) ==
    IF n = 0 THEN 0 ELSE Cardinality(LegalSeqs(n)) + CountSeqsUpTo(n - 1)

\* C19: count_moves(d), d >= 1, is the number of non-empty legal move
\* sequences of at most d + 1 moves from the initial Position.
C19_CountsLegalSequences ==
    (pc = "returned" /\ state = initial /\ max_depth >= 1)
        => result = CountSeqsUpTo(max_depth + 1)

C19_Witness ==
    pc = "returned" /\ state = initial /\ max_depth = MaxDepth /\ line = 0

\* ---- symmetric positions ----
\* C15: for every reachable Position, every symmetry and every remaining
\* depth r >= 1, the plain count from the transformed Position equals the
\* plain count from the Position.
C15_SymmetricCountsEqual ==
    \A sym \in Syms : \A r \in 1 .. MaxRemaining :
        PlainCount(Apply(sym, state), r) = PlainCount(state, r)

\* a Position with a decided sub-board that some symmetry really changes
C15_Witness ==
    /\ meta(state) # {}
    /\ state.next_valid # {}
    /\ \E sym \in Syms : Apply(sym, state) # state

\* ---- the parallel fan-out ----
\* C16: whatever the order in which the workers take the successor subtrees
\* and in which the partial sums are added, the fan-out returns the value of
\* recurse at the node.
C16_FanOutOrderIndependent ==
    pc = "joined" => result = recurse_at(state, 0, max_depth, max_depth)

\* a finished fan-out over several entries, one of them a canonical form met
\* more than once, whose partial sums were merged
C16_Witness ==
    /\ pc = "joined"
    /\ live # Workers
    /\ result > initial_total(state)
    /\ LET pairs == canonical_successors(state)
       IN  /\ Cardinality({pr[2] : pr \in pairs}) > 1
           /\ \E pr \in pairs : multiplicity(pairs, pr[2]) > 1

====
